---- MODULE Spec2Model ----
(***************************************************************************)
(* Model of the shrtie short-link storage backends: the Redis backend      *)
(* (HMSET revision and pipelined-HSET revision) and the SQLite backend.    *)
(* Strings that the code inspects character by character (keys, decimal    *)
(* renderings of integers) are sequences of one-character strings.         *)
(***************************************************************************)
EXTENDS Integers, Sequences, FiniteSets, TLC

\* ------------------------------------------------------------------ bounds
\* number of callers that can be inside a call at the same time
NumProcs == 2
\* number of Save calls issued in one run
MaxSaves == 2
\* number of Get and Info calls issued in one run
MaxReads == 2
\* number of clock ticks (seconds) that may pass in one run
MaxTicks == 2
\* number of Save calls issued in a run that follows the readers of a record
MaxRecords == 1

\* ------------------------------------------------------- program constants
maxLength == 2048

\* ------------------------------------------------------------- key codec
\* encoding/base64 StdEncoding alphabet (used by Redis.Save)
encodeStd ==
  <<
     "A", "B", "C", "D", "E", "F", "G", "H", "I", "J", "K", "L", "M", "N", "O", "P",
     "Q", "R", "S", "T", "U", "V", "W", "X", "Y", "Z", "a", "b", "c", "d", "e", "f",
     "g", "h", "i", "j", "k", "l", "m", "n", "o", "p", "q", "r", "s", "t", "u", "v",
     "w", "x", "y", "z", "0", "1", "2", "3", "4", "5", "6", "7", "8", "9", "+", "/" >>

\* encoding/base64 URLEncoding alphabet (used by Sqlite3.Save and toInt64)
encodeURL ==
  <<
     "A", "B", "C", "D", "E", "F", "G", "H", "I", "J", "K", "L", "M", "N", "O", "P",
     "Q", "R", "S", "T", "U", "V", "W", "X", "Y", "Z", "a", "b", "c", "d", "e", "f",
     "g", "h", "i", "j", "k", "l", "m", "n", "o", "p", "q", "r", "s", "t", "u", "v",
     "w", "x", "y", "z", "0", "1", "2", "3", "4", "5", "6", "7", "8", "9", "-", "_" >>

\* the character class of `escape`, [^0-9A-Za-z_-], as the set it excludes
escapeSafe == { encodeURL[i] : i \in 1..64 }

\* regexp.MatchString(escape, key): some character is outside the class
escape(key) == \E i \in 1..Len(key) : key[i] \notin escapeSafe

\* binary.PutUvarint: 7 bits per byte, low group first, 0x80 = continuation
RECURSIVE PutUvarint(_)
PutUvarint(ux) ==
  IF ux >= 128 THEN <<(ux % 128) + 128>> \o PutUvarint(ux \div 128)
  ELSE <<ux>>

\* binary.PutVarint: zig-zag (ux = x<<1, complemented for x < 0), then uvarint
PutVarint(x) ==
  PutUvarint(IF x < 0 THEN (-2 * x) - 1 ELSE 2 * x)

\* base64 (*Encoding).EncodeToString without padding (Raw*Encoding)
RECURSIVE EncodeToString(_, _)
EncodeToString(alphabet, buf) ==
  IF Len(buf) = 0 THEN << >>
  ELSE IF Len(buf) = 1 THEN
    << alphabet[(buf[1] \div 4) + 1],
       alphabet[((buf[1] % 4) * 16) + 1] >>
  ELSE IF Len(buf) = 2 THEN
    << alphabet[(buf[1] \div 4) + 1],
       alphabet[((buf[1] % 4) * 16) + (buf[2] \div 16) + 1],
       alphabet[((buf[2] % 16) * 4) + 1] >>
  ELSE
    << alphabet[(buf[1] \div 4) + 1],
       alphabet[((buf[1] % 4) * 16) + (buf[2] \div 16) + 1],
       alphabet[((buf[2] % 16) * 4) + (buf[3] \div 64) + 1],
       alphabet[(buf[3] % 64) + 1] >>
    \o EncodeToString(alphabet, SubSeq(buf, 4, Len(buf)))

\* value of a character in an alphabet, -1 when it is not in it
decodeMap(alphabet, c) ==
  IF \E i \in 1..64 : alphabet[i] = c
  THEN (CHOOSE i \in 1..64 : alphabet[i] = c) - 1
  ELSE -1

\* DecodeString drops \r and \n before decoding
RECURSIVE removeNewlines(_)
removeNewlines(s) ==
  IF Len(s) = 0 THEN << >>
  ELSE IF s[1] \in {"\n", "\r"} THEN removeNewlines(Tail(s))
  ELSE <<s[1]>> \o removeNewlines(Tail(s))

\* the quantum decoder of a Raw (unpadded, non-strict) encoding: 4 characters
\* give 3 bytes, a final 3 give 2, a final 2 give 1, a final 1 is corrupt;
\* left-over low bits of the last character are dropped
RECURSIVE decodeQuanta(_, _)
decodeQuanta(alphabet, s) ==
  LET v(i) == decodeMap(alphabet, s[i]) IN
  IF Len(s) = 0 THEN [err |-> FALSE, buf |-> << >>]
  ELSE IF Len(s) = 1 THEN [err |-> TRUE, buf |-> << >>]
  ELSE IF \E i \in 1..(IF Len(s) < 4 THEN Len(s) ELSE 4) : v(i) = -1
    THEN [err |-> TRUE, buf |-> << >>]
  ELSE IF Len(s) = 2 THEN
    [err |-> FALSE, buf |-> << (v(1) * 4) + (v(2) \div 16) >>]
  ELSE IF Len(s) = 3 THEN
    [err |-> FALSE,
     buf |-> << (v(1) * 4) + (v(2) \div 16),
                ((v(2) % 16) * 16) + (v(3) \div 4) >>]
  ELSE
    LET rest == decodeQuanta(alphabet, SubSeq(s, 5, Len(s))) IN
    [err |-> rest.err,
     buf |-> IF rest.err THEN << >>
             ELSE << (v(1) * 4) + (v(2) \div 16),
                     ((v(2) % 16) * 16) + (v(3) \div 4),
                     ((v(3) % 4) * 64) + v(4) >> \o rest.buf]

\* base64 (*Encoding).DecodeString
DecodeString(alphabet, s) == decodeQuanta(alphabet, removeNewlines(s))

\* binary.Uvarint: the value of the leading uvarint of buf; 0 when buf ends
\* inside it (keys here are far shorter than the 10-byte overflow limit)
RECURSIVE Uvarint(_)
Uvarint(buf) ==
  IF Len(buf) = 0 THEN [x |-> 0, n |-> 0]
  ELSE IF buf[1] < 128 THEN [x |-> buf[1], n |-> 1]
  ELSE LET rest == Uvarint(Tail(buf)) IN
       IF rest.n = 0 THEN [x |-> 0, n |-> 0]
       ELSE [x |-> (buf[1] - 128) + (128 * rest.x), n |-> rest.n + 1]

\* binary.Varint: undo the zig-zag
Varint(buf) ==
  LET ux == Uvarint(buf).x IN
  IF ux % 2 = 1 THEN -((ux + 1) \div 2) ELSE ux \div 2

\* toInt64 (sqlite backend): base64url-decode, then Varint, its byte count
\* discarded
toInt64(s) ==
  LET d == DecodeString(encodeURL, s) IN
  IF d.err THEN [id |-> 0, err |-> "ErrWrongKey"]
  ELSE [id |-> Varint(d.buf), err |-> "nil"]

\* ------------------------------------------- the codec on 64-bit values
\* An int64 identifier is written here as its base-128 groups, low group
\* first and no high zero group (0 is the empty sequence), which is how the
\* varint coding reads it; the operators above are the same functions on
\* small integers.

\* buf := make([]byte, 8)
bufLen == 8

\* uint64(x) << 1 on the groups of a non-negative x, c the carry in
RECURSIVE shl1(_, _)
shl1(gs, c) ==
  IF Len(gs) = 0 THEN (IF c = 0 THEN << >> ELSE <<c>>)
  ELSE <<((2 * gs[1]) + c) % 128>>
         \o shl1(Tail(gs), ((2 * gs[1]) + c) \div 128)

\* x >> 1 on groups
shr1(gs) ==
  [i \in 1..Len(gs) |->
     (gs[i] \div 2) + (IF i < Len(gs) THEN (gs[i + 1] % 2) * 64 ELSE 0)]

\* drop the high zero groups
RECURSIVE trim(_)
trim(gs) ==
  IF Len(gs) > 0 /\ gs[Len(gs)] = 0 THEN trim(SubSeq(gs, 1, Len(gs) - 1))
  ELSE gs

\* binary.PutUvarint(buf, x) into a buffer of n bytes: one byte per group,
\* 0x80 set on all but the last; writing past the buffer panics
PutUvarint64(n, gs) ==
  LET bytes == IF Len(gs) = 0 THEN <<0>>
               ELSE [i \in 1..Len(gs) |->
                       IF i < Len(gs) THEN gs[i] + 128 ELSE gs[i]]
  IN IF Len(bytes) > n THEN [panic |-> TRUE, buf |-> << >>]
     ELSE [panic |-> FALSE, buf |-> bytes]

\* binary.PutVarint(buf, x) for x >= 0: ux = uint64(x) << 1, then PutUvarint
PutVarint64(n, gs) == PutUvarint64(n, shl1(gs, 0))

\* binary.Uvarint: the groups up to the first byte below 0x80; nothing (0)
\* when buf ends before it or the value overflows 64 bits
RECURSIVE uvarintGroups(_, _)
uvarintGroups(buf, i) ==
  IF Len(buf) = 0 THEN [ok |-> FALSE, gs |-> << >>]
  ELSE IF buf[1] < 128
    THEN IF i > 9 \/ (i = 9 /\ buf[1] > 1)
         THEN [ok |-> FALSE, gs |-> << >>]
         ELSE [ok |-> TRUE, gs |-> <<buf[1]>>]
  ELSE LET rest == uvarintGroups(Tail(buf), i + 1) IN
       IF rest.ok THEN [ok |-> TRUE, gs |-> <<buf[1] - 128>> \o rest.gs]
       ELSE rest

Uvarint64(buf) == uvarintGroups(buf, 0).gs

\* binary.Varint: x = ux >> 1, complemented (negative) when ux is odd
Varint64(buf) ==
  LET ux == Uvarint64(buf) IN
  [neg |-> Len(ux) > 0 /\ ux[1] % 2 = 1, gs |-> trim(shr1(ux))]

\* toInt64 on 64-bit values
toInt64Groups(s) ==
  LET d == DecodeString(encodeURL, s) IN
  IF d.err THEN [err |-> "ErrWrongKey", neg |-> FALSE, gs |-> << >>]
  ELSE [err |-> "nil", neg |-> Varint64(d.buf).neg, gs |-> Varint64(d.buf).gs]

\* ------------------------------------------------------ decimal strings
digits == <<"0", "1", "2", "3", "4", "5", "6", "7", "8", "9">>

RECURSIVE formatBits(_)
formatBits(u) ==
  IF u < 10 THEN <<digits[u + 1]>>
  ELSE formatBits(u \div 10) \o <<digits[(u % 10) + 1]>>

\* strconv.FormatInt(i, 10)
FormatInt(i) == IF i < 0 THEN <<"-">> \o formatBits(-i) ELSE formatBits(i)

digitVal(c) ==
  IF \E i \in 1..10 : digits[i] = c
  THEN (CHOOSE i \in 1..10 : digits[i] = c) - 1
  ELSE -1

RECURSIVE parseUint(_, _)
parseUint(s, acc) ==
  IF Len(s) = 0 THEN acc
  ELSE parseUint(Tail(s), (acc * 10) + digitVal(s[1]))

\* strconv.ParseInt(s, 10, 64) with its error discarded, as every caller
\* does: a syntax error (empty string, no digits, a non-digit) yields 0
ParseInt(s) ==
  LET neg  == Len(s) > 0 /\ s[1] = "-"
      body == IF Len(s) > 0 /\ s[1] \in {"-", "+"} THEN Tail(s) ELSE s
  IN IF Len(body) = 0 \/ \E i \in 1..Len(body) : digitVal(body[i]) = -1
     THEN 0
     ELSE IF neg THEN -parseUint(body, 0) ELSE parseUint(body, 0)

\* ------------------------------------------------------------- inputs
\* first second of the run (time.Now().Unix() at construction)
Now0 == 5

Backends == {"redis", "redisPipelined", "sqlite3"}

\* The stores a shrtie instance is constructed on: a fresh one (counter 0)
\* and one whose durable counter has already been advanced 123 times; the
\* pipelined revision of the Redis backend is run on the fresh store.
\* Records of identifiers handed out before construction are not part of
\* the model: no call of a run addresses them.
Stores ==
  { [backend |-> "redis", counter |-> 0],
    [backend |-> "redis", counter |-> 123],
    [backend |-> "redisPipelined", counter |-> 0],
    [backend |-> "sqlite3", counter |-> 0],
    [backend |-> "sqlite3", counter |-> 123] }

LongURL == "https://example.org/2049-bytes"

\* the Save requests callers submit: ttl in whole seconds (the clock is read
\* in whole seconds), negative, zero and positive
Requests ==
  { [value |-> "https://example.org", ttl |-> -1],
    [value |-> "https://example.org", ttl |-> 0],
    [value |-> "https://example.org", ttl |-> 1],
    [value |-> LongURL, ttl |-> 0] }

\* len(value) in bytes
len(value) == IF value = LongURL THEN maxLength + 1 ELSE 19

\* the key Save derives from an identifier
RedisKey(index) == EncodeToString(encodeStd, PutVarint(index))
Sqlite3Key(index) == EncodeToString(encodeURL, PutVarint(index))
KeyOf(b, index) == IF b = "sqlite3" THEN Sqlite3Key(index) ELSE RedisKey(index)

\* keys callers pass to Get and Info: the keys of the next two identifiers
\* and a key with a character outside both alphabets
ProbeKeys(b, c) == { KeyOf(b, c + 1), KeyOf(b, c + 2), <<"A", "!">> }

\* --------------------------------------------------------------- state
\* Callers are the goroutines of the HTTP server; they carry no identity, so
\* the calls in progress are kept as a set of their local variables.
VARIABLES
  backend,    \* which backend the shrtie instance was constructed with
  counter,    \* redis: prefix+"meta:count"; sqlite: the AUTOINCREMENT sequence
  hashes,     \* redis: key |-> hash (field |-> string) under the prefix
  rows,       \* sqlite: id |-> row of shrtie_url
  now,        \* time.Now().Unix()
  calls,      \* the Save calls between two round trips: their locals
  ret,        \* what the call that returned last returned
  saveCalls,  \* number of Save calls issued so far
  readCalls,  \* number of Get and Info calls issued so far
  counter0,   \* history: value of the counter at construction
  allocs,     \* history: identifiers in the order they were allocated
  saved,      \* history: the Saves that returned a key, in that order
  codec,      \* an identifier on its way through PutVarint, base64, toInt64
  http        \* the request a Handler served last, the backend calls it made
              \* and the response it wrote

vars == <<backend, counter, hashes, rows, now, calls, ret, saveCalls,
          readCalls, counter0, allocs, saved, codec, http>>

NoMeta == [TTL |-> 0, Clicked |-> 0, Created |-> 0]

\* no identifier is being coded
NoCodec == [stage |-> "none", id |-> << >>, buf |-> << >>, key |-> << >>,
            err |-> "nil", neg |-> FALSE, out |-> << >>]

\* no Handler has served a request
NoHttp == [handler |-> "none"]

NoRet == [op |-> "none", key |-> << >>, value |-> "", err |-> "nil",
          meta |-> NoMeta, isnil |-> TRUE]

Init ==
  /\ \E s \in Stores : backend = s.backend /\ counter0 = s.counter
  /\ counter = counter0
  /\ hashes = << >>
  /\ rows = << >>
  /\ now = Now0
  /\ calls = {}
  /\ ret = NoRet
  /\ saveCalls = 0
  /\ readCalls = 0
  /\ allocs = << >>
  /\ saved = << >>
  /\ codec = NoCodec
  /\ http = NoHttp

\* ---------------------------------------------------- return bookkeeping
\* Save returns key ("" on failure)
SaveRet(key) ==
  [op |-> "Save", key |-> key, value |-> "", err |-> "nil",
   meta |-> NoMeta, isnil |-> TRUE]

\* Get returns (url, err)
GetRet(key, url, err) ==
  [op |-> "Get", key |-> key, value |-> url, err |-> err,
   meta |-> NoMeta, isnil |-> TRUE]

\* Info returns (*Metadata, err)
InfoRet(key, url, meta, isnil, err) ==
  [op |-> "Info", key |-> key, value |-> url, err |-> err,
   meta |-> meta, isnil |-> isnil]

\* the record of a Save that returned a key
SavedRec(l, key) ==
  [index |-> l.index, key |-> key, value |-> l.value, ttl |-> l.ttl,
   at |-> l.at]

\* a caller is free to start a call
CanSave == Cardinality(calls) < NumProcs /\ saveCalls < MaxSaves
CanRead == Cardinality(calls) < NumProcs /\ readCalls < MaxReads

\* the clock advances
Tick ==
  /\ now < Now0 + MaxTicks
  /\ now' = now + 1
  /\ UNCHANGED <<http, codec, backend, counter, hashes, rows, calls, ret, saveCalls,
                 readCalls, counter0, allocs, saved>>

\* ------------------------------------------------------- redis commands
\* an increment whose write is lost: the new value is returned, not stored
IncrLost(c) == [stored |-> c, result |-> c + 1]

\* an increment replying the value before the increment
IncrOld(c) == [stored |-> c + 1, result |-> c]

\* an increment sent a second time: two identifiers are consumed for one
IncrTwice(c) == [stored |-> c + 2, result |-> c + 2]

\* INCR: the new value is stored and returned in one server-side step
Incr(c) == [stored |-> c + 1, result |-> c + 1]

\* HGET: a missing key or field is the reply redis.Nil
HGet(path, field) ==
  IF path \in DOMAIN hashes /\ field \in DOMAIN hashes[path]
  THEN [isnil |-> FALSE, val |-> hashes[path][field]]
  ELSE [isnil |-> TRUE, val |-> << >>]

\* (*StringCmd).Int64: 0 when the command carries an error
Int64(cmd) == IF cmd.isnil THEN 0 ELSE ParseInt(cmd.val)

\* HGETALL: every field of the hash, the empty map for a missing key
HGetAll(path) == IF path \in DOMAIN hashes THEN hashes[path] ELSE << >>

\* objMap[field] of a Go map[string]string: "" for a missing field
MapGet(objMap, field) ==
  IF field \in DOMAIN objMap THEN objMap[field] ELSE << >>

\* HSET / HMSET: the fields are set in the hash at path, created if missing
HMSet(h, path, fields) ==
  IF path \in DOMAIN h
  THEN [h EXCEPT ![path] = fields @@ h[path]]
  ELSE (path :> fields) @@ h

\* an increment sent to the until field instead of the field asked for
HIncrByUntil(h, path, field, by) ==
  LET old == IF path \in DOMAIN h /\ "until" \in DOMAIN h[path]
             THEN ParseInt(h[path]["until"]) ELSE 0
  IN HMSet(h, path, ("until" :> FormatInt(old + by)))

\* HINCRBY: the field counts from 0 when the key or the field is missing
HIncrBy(h, path, field, by) ==
  LET old == IF path \in DOMAIN h /\ field \in DOMAIN h[path]
             THEN ParseInt(h[path][field]) ELSE 0
  IN HMSet(h, path, (field :> FormatInt(old + by)))

\* the until string Redis.Save computes
RedisUntil(ttl, at) == IF ttl = 0 THEN <<"0">> ELSE FormatInt(at + ttl)

\* ------------------------------------------------ Redis.Save (HMSET form)
\* The length check and the INCR round trip.  The clock is read between the
\* INCR reply and the next round trip; the model reads it with the reply.
RedisSaveIncr(value, ttl) ==
  /\ backend = "redis"
  /\ CanSave
  /\ saveCalls' = saveCalls + 1
  /\ IF len(value) > maxLength
     THEN /\ ret' = SaveRet(<< >>)
          /\ UNCHANGED <<counter, calls, allocs>>
     ELSE \E ok \in BOOLEAN :
          IF ok
          THEN /\ counter' = Incr(counter).stored
               /\ allocs' = Append(allocs, Incr(counter).result)
               /\ calls' = calls \cup
                    {[value |-> value, ttl |-> ttl,
                      index |-> Incr(counter).result, at |-> now,
                      queue |-> << [url |-> value,
                                    created |-> FormatInt(now),
                                    until |-> RedisUntil(ttl, now)] >>]}
               /\ UNCHANGED ret
          ELSE /\ ret' = SaveRet(<< >>)
               /\ UNCHANGED <<counter, calls, allocs>>
  /\ UNCHANGED <<http, codec, backend, hashes, rows, now, readCalls, counter0, saved>>

\* the HMSET round trip: the three fields are written in one command
RedisSaveHMSet(l) ==
  /\ backend = "redis"
  /\ l \in calls
  /\ LET key == RedisKey(l.index)
     IN \E ok \in BOOLEAN :
        IF ok
        THEN /\ hashes' = HMSet(hashes, key, Head(l.queue))
             /\ ret' = SaveRet(key)
             /\ saved' = Append(saved, SavedRec(l, key))
        ELSE /\ ret' = SaveRet(<< >>)
             /\ UNCHANGED <<hashes, saved>>
  /\ calls' = calls \ {l}
  /\ UNCHANGED <<http, codec, backend, counter, rows, now, saveCalls, readCalls,
                 counter0, allocs>>

\* ------------------------------------------ Redis.Save (pipelined HSETs)
\* the INCR round trip (this revision has no length check), then the
\* pipeline closure: it reads the clock and queues three HSETs
RedisPipelinedSaveIncr(value, ttl) ==
  /\ backend = "redisPipelined"
  /\ CanSave
  /\ saveCalls' = saveCalls + 1
  /\ \E ok \in BOOLEAN :
     IF ok
     THEN /\ counter' = Incr(counter).stored
          /\ allocs' = Append(allocs, Incr(counter).result)
          /\ calls' = calls \cup
               {[value |-> value, ttl |-> ttl,
                 index |-> Incr(counter).result, at |-> now,
                 queue |-> << [url |-> value],
                              [created |-> FormatInt(now)],
                              [until |-> RedisUntil(ttl, now)] >>]}
          /\ UNCHANGED ret
     ELSE /\ ret' = SaveRet(<< >>)
          /\ UNCHANGED <<counter, calls, allocs>>
  /\ UNCHANGED <<http, codec, backend, hashes, rows, now, readCalls, counter0, saved>>

\* the server executes the next queued HSET; other clients' commands may run
\* between two of them.  After the last one Save returns the key.  When the
\* connection fails (ok = FALSE) Save returns "" and the rest is not sent.
RedisPipelinedSaveHSet(l) ==
  /\ backend = "redisPipelined"
  /\ l \in calls
  /\ LET key == RedisKey(l.index)
     IN \E ok \in BOOLEAN :
        IF ok
        THEN /\ hashes' = HMSet(hashes, key, Head(l.queue))
             /\ IF Len(l.queue) > 1
                THEN /\ calls' = (calls \ {l}) \cup
                                 {[l EXCEPT !.queue = Tail(l.queue)]}
                     /\ UNCHANGED <<ret, saved>>
                ELSE /\ calls' = calls \ {l}
                     /\ ret' = SaveRet(key)
                     /\ saved' = Append(saved, SavedRec(l, key))
        ELSE /\ calls' = calls \ {l}
             /\ ret' = SaveRet(<< >>)
             /\ UNCHANGED <<hashes, saved>>
  /\ UNCHANGED <<http, codec, backend, counter, rows, now, saveCalls, readCalls,
                 counter0, allocs>>

\* ---------------------------------------------------- Redis.Get / Info
\* The pipeline HGET url, HGET until, HINCRBY count is one step: Save writes
\* url before until and Get reads them in that order, so a Get interleaved
\* with a Save returns what a Get at one instant can return.  Pipelined
\* reports the first failed command, redis.Nil of a missing field included;
\* the HINCRBY is executed whatever the HGETs replied.
RedisGet(key) ==
  /\ backend \in {"redis", "redisPipelined"}
  /\ CanRead
  /\ readCalls' = readCalls + 1
  /\ IF escape(key)
     THEN /\ ret' = GetRet(key, "", "ErrWrongKey")
          /\ UNCHANGED hashes
     ELSE LET url   == HGet(key, "url")
              until == HGet(key, "until")
              ttlTo == Int64(until)
          IN /\ hashes' = HIncrBy(hashes, key, "count", 1)
             /\ ret' = IF url.isnil \/ until.isnil
                         THEN GetRet(key, "", "redis.Nil")
                       ELSE IF ttlTo # 0 /\ now > ttlTo
                         THEN GetRet(key, "", "ErrTTL")
                       ELSE GetRet(key, url.val, "nil")
  /\ UNCHANGED <<http, codec, backend, counter, rows, now, calls, saveCalls,
                 counter0, allocs, saved>>

\* the counter lives under the same prefix as the records, at
\* prefix + "meta:count", as a string key (absent until the first INCR)
counterKey == <<"m", "e", "t", "a", ":", "c", "o", "u", "n", "t">>

\* what Redis.Info returns: HGETALL (no key check; on the counter key, a
\* string, Redis answers with a WRONGTYPE error), then the expiry rule on
\* until - now
RedisInfoReply(key) ==
  LET objMap == HGetAll(key)
      until  == ParseInt(MapGet(objMap, "until"))
      url    == IF "url" \in DOMAIN objMap THEN objMap["url"] ELSE ""
  IN IF key = counterKey /\ counter # 0
       THEN InfoRet(key, "", NoMeta, TRUE, "WRONGTYPE")
     ELSE IF objMap = << >>
       THEN InfoRet(key, "", NoMeta, TRUE, "ErrWrongKey")
     ELSE IF until - now > 0 \/ until = 0
       THEN InfoRet(key, url,
              [TTL |-> IF until - now > 0 THEN until - now ELSE 0,
               Clicked |-> ParseInt(MapGet(objMap, "count")),
               Created |-> ParseInt(MapGet(objMap, "created"))],
              FALSE, "nil")
     ELSE InfoRet(key, "", NoMeta, TRUE, "ErrTTL")

\* an Info that counts a click, as the pipeline of Get does
RedisInfoCounting(key) ==
  /\ backend \in {"redis", "redisPipelined"}
  /\ CanRead
  /\ readCalls' = readCalls + 1
  /\ ret' = RedisInfoReply(key)
  /\ hashes' = HIncrBy(hashes, key, "count", 1)
  /\ UNCHANGED <<http, codec, backend, counter, rows, now, calls, saveCalls,
                 counter0, allocs, saved>>

\* Info sends the one read-only command HGETALL
RedisInfo(key) ==
  /\ backend \in {"redis", "redisPipelined"}
  /\ CanRead
  /\ readCalls' = readCalls + 1
  /\ ret' = RedisInfoReply(key)
  /\ UNCHANGED <<http, codec, backend, counter, hashes, rows, now, calls, saveCalls,
                 counter0, allocs, saved>>

\* --------------------------------------------------------------- sqlite
\* a rowid that does not advance past the sequence
LastInsertIdStale(seq) == seq

\* INSERT into a table with INTEGER PRIMARY KEY AUTOINCREMENT: the new rowid
\* is one more than the largest rowid the table ever held
LastInsertId(seq) == seq + 1

\* the length check and the INSERT, one statement
Sqlite3Save(value, ttl) ==
  /\ backend = "sqlite3"
  /\ CanSave
  /\ saveCalls' = saveCalls + 1
  /\ IF len(value) > maxLength
     THEN /\ ret' = SaveRet(<< >>)
          /\ UNCHANGED <<counter, rows, allocs, saved>>
     ELSE LET until == IF ttl # 0 THEN now + ttl ELSE 0
              index == LastInsertId(counter)
              key   == Sqlite3Key(index)
          IN \E ok \in BOOLEAN :
             IF ok
             THEN /\ counter' = index
                  /\ rows' = (index :> [url |-> value, until |-> until,
                                        count |-> 0, created |-> now]) @@ rows
                  /\ allocs' = Append(allocs, index)
                  /\ ret' = SaveRet(key)
                  /\ saved' = Append(saved,
                       [index |-> index, key |-> key, value |-> value,
                        ttl |-> ttl, at |-> now])
             ELSE /\ ret' = SaveRet(<< >>)
                  /\ UNCHANGED <<counter, rows, allocs, saved>>
  /\ UNCHANGED <<http, codec, backend, hashes, now, calls, readCalls, counter0>>

\* toInt64, the SELECT, the expiry test; incrStmt is never executed
Sqlite3Get(key) ==
  /\ backend = "sqlite3"
  /\ CanRead
  /\ readCalls' = readCalls + 1
  /\ LET id == toInt64(key) IN
     ret' = IF id.err # "nil" THEN GetRet(key, "", id.err)
            ELSE IF id.id \notin DOMAIN rows THEN GetRet(key, "", "nil")
            ELSE IF rows[id.id].until < now THEN GetRet(key, "", "ErrTTL")
            ELSE GetRet(key, rows[id.id].url, "nil")
  /\ UNCHANGED <<http, codec, backend, counter, hashes, rows, now, calls, saveCalls,
                 counter0, allocs, saved>>

\* what Sqlite3.Info returns: toInt64, the SELECT with its Scan error
\* ignored, the sign test on until
Sqlite3InfoReply(key) ==
  LET id  == toInt64(key)
      row == IF id.id \in DOMAIN rows THEN rows[id.id]
             ELSE [url |-> "", until |-> 0, count |-> 0, created |-> 0]
  IN IF id.err # "nil"
       THEN InfoRet(key, "", NoMeta, TRUE, id.err)
     ELSE IF row.until < 0
       THEN InfoRet(key, "", NoMeta, TRUE, "ErrTTL")
     ELSE InfoRet(key, row.url,
            [TTL |-> IF row.until > 0 THEN row.until - now ELSE 0,
             Clicked |-> row.count, Created |-> row.created],
            FALSE, "nil")

\* Info sends the one SELECT
Sqlite3Info(key) ==
  /\ backend = "sqlite3"
  /\ CanRead
  /\ readCalls' = readCalls + 1
  /\ ret' = Sqlite3InfoReply(key)
  /\ UNCHANGED <<http, codec, backend, counter, hashes, rows, now, calls, saveCalls,
                 counter0, allocs, saved>>

\* ------------------------------------------------------- specification
Next ==
  \/ Tick
  \/ \E r \in Requests : RedisSaveIncr(r.value, r.ttl)
  \/ \E l \in calls : RedisSaveHMSet(l)
  \/ \E r \in Requests : RedisPipelinedSaveIncr(r.value, r.ttl)
  \/ \E l \in calls : RedisPipelinedSaveHSet(l)
  \/ \E key \in ProbeKeys(backend, counter0) : RedisGet(key)
  \/ \E key \in ProbeKeys(backend, counter0) : RedisInfo(key)
  \/ \E r \in Requests : Sqlite3Save(r.value, r.ttl)
  \/ \E key \in ProbeKeys(backend, counter0) : Sqlite3Get(key)
  \/ \E key \in ProbeKeys(backend, counter0) : Sqlite3Info(key)

Spec == Init /\ [][Next]_vars

\* Save calls alone, in every interleaving, with the clock advancing:
\* identifier allocation is done by Save and by nothing else
NextSave ==
  \/ Tick
  \/ \E r \in Requests : RedisSaveIncr(r.value, r.ttl)
  \/ \E l \in calls : RedisSaveHMSet(l)
  \/ \E r \in Requests : RedisPipelinedSaveIncr(r.value, r.ttl)
  \/ \E l \in calls : RedisPipelinedSaveHSet(l)
  \/ \E r \in Requests : Sqlite3Save(r.value, r.ttl)

SpecSave == Init /\ [][NextSave]_vars

\* The life of a record among its readers: at most MaxRecords Save calls,
\* with Get and Info calls and clock ticks in every interleaving with them.
NextRead ==
  \/ Tick
  \/ \E r \in Requests :
       saveCalls < MaxRecords /\ RedisSaveIncr(r.value, r.ttl)
  \/ \E l \in calls : RedisSaveHMSet(l)
  \/ \E r \in Requests :
       saveCalls < MaxRecords /\ RedisPipelinedSaveIncr(r.value, r.ttl)
  \/ \E l \in calls : RedisPipelinedSaveHSet(l)
  \/ \E key \in ProbeKeys(backend, counter0) : RedisGet(key)
  \/ \E key \in ProbeKeys(backend, counter0) : RedisInfo(key)
  \/ \E r \in Requests :
       saveCalls < MaxRecords /\ Sqlite3Save(r.value, r.ttl)
  \/ \E key \in ProbeKeys(backend, counter0) : Sqlite3Get(key)
  \/ \E key \in ProbeKeys(backend, counter0) : Sqlite3Info(key)

SpecRead == Init /\ [][NextRead]_vars

\* keys with a character outside [0-9A-Za-z_-] that callers pass to Get and
\* Info: a punctuation mark, and the key of the next identifier followed by
\* a line feed or by a padding character, and the name of the counter key
BadKeys(b, c) ==
  { <<"A", "!">>, KeyOf(b, c + 1) \o <<"\n">>, KeyOf(b, c + 1) \o <<"=">>,
    counterKey }

\* Save calls, with Get and Info calls on keys that are not well formed
NextKeys ==
  \/ Tick
  \/ \E r \in Requests :
       saveCalls < MaxRecords /\ RedisSaveIncr(r.value, r.ttl)
  \/ \E l \in calls : RedisSaveHMSet(l)
  \/ \E r \in Requests :
       saveCalls < MaxRecords /\ RedisPipelinedSaveIncr(r.value, r.ttl)
  \/ \E l \in calls : RedisPipelinedSaveHSet(l)
  \/ \E key \in BadKeys(backend, counter0) : RedisGet(key)
  \/ \E key \in BadKeys(backend, counter0) : RedisInfo(key)
  \/ \E r \in Requests :
       saveCalls < MaxRecords /\ Sqlite3Save(r.value, r.ttl)
  \/ \E key \in BadKeys(backend, counter0) : Sqlite3Get(key)
  \/ \E key \in BadKeys(backend, counter0) : Sqlite3Info(key)

SpecKeys == Init /\ [][NextKeys]_vars

\* ------------------------------------------- the codec as a computation
\* a non-negative int64 has 63 value bits: at most 9 groups of 7
idGroups == 63 \div 7

\* the identifiers coded: 0, and for every length the groups made of a low
\* group, a filling group and a high group drawn from the ends and the
\* middle of the group range (among them 2^55 - 1, 2^55 and 2^63 - 1)
Ids ==
  { << >> } \cup
  { [i \in 1..n |-> IF i = n THEN t ELSE IF i = 1 THEN d ELSE f] :
      n \in 1..idGroups, d \in {0, 1, 127}, f \in {0, 127},
      t \in {1, 63, 64, 127} }

InitCodec ==
  /\ backend = "sqlite3"
  /\ counter0 = 0
  /\ counter = counter0
  /\ hashes = << >>
  /\ rows = << >>
  /\ now = Now0
  /\ calls = {}
  /\ ret = NoRet
  /\ saveCalls = 0
  /\ readCalls = 0
  /\ allocs = << >>
  /\ saved = << >>
  /\ \E id \in Ids : codec = [NoCodec EXCEPT !.stage = "id", !.id = id]
  /\ http = NoHttp

\* Sqlite3.Save: size := binary.PutVarint(buf, index), buf of bufLen bytes
Sqlite3SavePutVarint ==
  /\ codec.stage = "id"
  /\ LET r == PutVarint64(bufLen, codec.id) IN
     codec' = IF r.panic THEN [codec EXCEPT !.stage = "panic"]
              ELSE [codec EXCEPT !.stage = "buf", !.buf = r.buf]
  /\ UNCHANGED <<http, backend, counter, hashes, rows, now, calls, ret, saveCalls,
                 readCalls, counter0, allocs, saved>>

\* Sqlite3.Save: base64.RawURLEncoding.EncodeToString(buf[:size])
Sqlite3SaveEncodeToString ==
  /\ codec.stage = "buf"
  /\ codec' = [codec EXCEPT !.stage = "key",
                             !.key = EncodeToString(encodeURL, codec.buf)]
  /\ UNCHANGED <<http, backend, counter, hashes, rows, now, calls, ret, saveCalls,
                 readCalls, counter0, allocs, saved>>

\* Sqlite3.Get / Info: id, err := toInt64(key)
Sqlite3ToInt64 ==
  /\ codec.stage = "key"
  /\ LET r == toInt64Groups(codec.key) IN
     codec' = [codec EXCEPT !.stage = "decoded", !.err = r.err,
                            !.neg = r.neg, !.out = r.gs]
  /\ UNCHANGED <<http, backend, counter, hashes, rows, now, calls, ret, saveCalls,
                 readCalls, counter0, allocs, saved>>

NextCodec ==
  \/ Sqlite3SavePutVarint
  \/ Sqlite3SaveEncodeToString
  \/ Sqlite3ToInt64

SpecCodec == InitCodec /\ [][NextCodec]_vars

\* --------------------------------------------- what the claims speak of
\* expiresAt of the record a Save created, in the store (h, r)
ExpiresAtIn(h, r, s) ==
  IF backend = "sqlite3" THEN r[s.index].until
  ELSE ParseInt(h[s.key]["until"])

ExpiresAt(s) == ExpiresAtIn(hashes, rows, s)

\* clickCount of the record a Save created, in the store (h, r)
ClickCountIn(h, r, s) ==
  IF backend = "sqlite3" THEN r[s.index].count
  ELSE ParseInt(MapGet(h[s.key], "count"))

ClickCount(s) == ClickCountIn(hashes, rows, s)

\* the liveness rule of the data model: expiresAt == 0 || expiresAt > now
Live(s) == ExpiresAt(s) = 0 \/ ExpiresAt(s) > now

\* this step is a Get, an Info, returning in ret'
GetStep == readCalls' = readCalls + 1 /\ ret'.op = "Get"
InfoStep == readCalls' = readCalls + 1 /\ ret'.op = "Info"

\* the identifiers of the Saves that returned a key
SavedIds == { saved[i].index : i \in DOMAIN saved }

\* every Save call issued so far has returned a key
AllSavesSucceeded == calls = {} /\ Len(saved) = saveCalls

\* ------------------------------------------------------------------ C1
\* C1: in every interleaving of concurrent Save calls, no two Save calls
\* that returned a key were given the same numeric identifier.
C1_UniqueIdentifiers ==
  \A i, j \in DOMAIN saved : i # j => saved[i].index # saved[j].index

\* two Saves overlapped (the later allocation returned first) and both
\* returned a key
C1_Witness ==
  Len(saved) = 2 /\ saved[1].index > saved[2].index

\* ------------------------------------------------------------------ C2
\* C2: over any sequence of Save calls, those whose persistence step fails
\* after the allocation included, the identifiers are strictly increasing in
\* allocation order, so none is allocated twice.
C2_StrictlyIncreasing ==
  \A i, j \in DOMAIN allocs : i < j => allocs[i] < allocs[j]

\* the persistence step of the first allocation failed, and the next Save
\* returned a key for the next identifier
C2_Witness ==
  /\ Len(allocs) = 2
  /\ calls = {}
  /\ Len(saved) = 1
  /\ saved[1].index = allocs[2]

\* ------------------------------------------------------------------ C3
\* C3 as stated: N Save calls, all successful, on a counter of initial value
\* c are given exactly the identifiers c+0 .. c+(N-1).
C3_Original ==
  AllSavesSucceeded =>
    SavedIds = counter0 .. (counter0 + saveCalls - 1)

\* C3 amended: N Save calls, all successful, on a counter of initial value c
\* are given N distinct identifiers, exactly c+1 .. c+N.
C3_IdentifierSet ==
  AllSavesSucceeded =>
    /\ Cardinality(SavedIds) = saveCalls
    /\ SavedIds = (counter0 + 1) .. (counter0 + saveCalls)

\* two concurrent Saves, both successful, the second allocation first to
\* return
C3_Witness ==
  /\ AllSavesSucceeded
  /\ saveCalls = 2
  /\ saved[1].index = counter0 + 2

\* ------------------------------------------------------------------ C4
\* C4: a Save of a url longer than maxLength fails and allocates nothing on
\* every backend: no call holding an identifier, and no Save that returned a
\* key, was made with such a url.
C4_OversizedSaveAllocatesNothing ==
  /\ \A l \in calls : len(l.value) <= maxLength
  /\ \A i \in DOMAIN saved : len(saved[i].value) <= maxLength

\* ------------------------------------------------------------------ C5
\* C5: a Save with a non-positive ttl persists expiresAt = 0, and every
\* later Lookup of its key returns the url however far the clock advanced.
C5_NonPositiveTtlNeverExpires ==
  [][ /\ \A i \in DOMAIN saved' :
           saved'[i].ttl <= 0 => ExpiresAtIn(hashes', rows', saved'[i]) = 0
      /\ \A i \in DOMAIN saved :
           (saved[i].ttl <= 0 /\ GetStep /\ ret'.key = saved[i].key)
             => (ret'.err = "nil" /\ ret'.value = saved[i].value) ]_vars

\* ------------------------------------------------------------------ C6
\* C6: whatever the identifier, after Save(u, 0) returned key k, Lookup(k)
\* returns u and Info(k) succeeds with TTL 0.
C6_SaveThenLookupAndInfo ==
  [][ \A i \in DOMAIN saved :
        (saved[i].ttl = 0 /\ ret'.key = saved[i].key) =>
          /\ GetStep => (ret'.err = "nil" /\ ret'.value = saved[i].value)
          /\ InfoStep => (ret'.err = "nil" /\ ~ret'.isnil
                          /\ ret'.meta.TTL = 0) ]_vars

\* ------------------------------------------------------------------ C7
\* C7: for a record saved with ttl > 0 at t0, a Lookup while now < t0 + ttl
\* returns the url and a Lookup once now > t0 + ttl fails with ErrTTL.
C7_TtlWindow ==
  [][ \A i \in DOMAIN saved :
        (saved[i].ttl > 0 /\ GetStep /\ ret'.key = saved[i].key) =>
          /\ now < saved[i].at + saved[i].ttl
               => (ret'.err = "nil" /\ ret'.value = saved[i].value)
          /\ now > saved[i].at + saved[i].ttl
               => ret'.err = "ErrTTL" ]_vars

\* ------------------------------------------------------------------ C8
\* C8: Lookup treats a stored record as live iff expiresAt == 0 or
\* expiresAt > now (so expiresAt == now is expired, expiresAt == 0 is live).
C8_LivenessRule ==
  [][ \A i \in DOMAIN saved :
        (GetStep /\ ret'.key = saved[i].key /\ ret'.err \in {"nil", "ErrTTL"})
          => ((ret'.err = "nil") <=> Live(saved[i])) ]_vars

\* ------------------------------------------------------------------ C9
\* C9: the clickCount of a record starts at 0 and changes only by a Lookup
\* of its key that returns the url, which adds exactly one; a failing Lookup
\* adds nothing.
C9_ClickCountCountsSuccessfulLookups ==
  [][ /\ \A i \in DOMAIN saved' \ DOMAIN saved :
           ClickCountIn(hashes', rows', saved'[i]) = 0
      /\ \A i \in DOMAIN saved :
           ClickCountIn(hashes', rows', saved[i]) = ClickCount(saved[i]) +
             (IF GetStep /\ ret'.key = saved[i].key /\ ret'.err = "nil"
              THEN 1 ELSE 0) ]_vars

\* ----------------------------------------------------------------- C10
\* C10: each of N concurrent Lookups of a live key returns the url and adds
\* exactly one to the record's clickCount: after N of them it is N higher.
C10_ConcurrentLookupsAllCounted ==
  [][ \A i \in DOMAIN saved :
        (GetStep /\ ret'.key = saved[i].key /\ Live(saved[i])) =>
          /\ ret'.err = "nil" /\ ret'.value = saved[i].value
          /\ ClickCountIn(hashes', rows', saved[i]) = ClickCount(saved[i]) + 1 ]_vars

\* ----------------------------------------------------------------- C11
\* C11: Info never changes the store: whatever the key and whether it
\* succeeds or fails, every record (its clickCount and every other field)
\* and the identifier counter are the same after Info as before.
C11_InfoChangesNothing ==
  [][ InfoStep => (hashes' = hashes /\ rows' = rows /\ counter' = counter) ]_vars

\* Info has returned the record of a key that was looked up before
C11_Witness ==
  ret.op = "Info" /\ ret.err = "nil" /\ ~ret.isnil /\ ret.meta.Clicked > 0

\* ----------------------------------------------------------------- C12
\* C12: Info on a record whose expiresAt is non-zero and not in the future
\* fails with ErrTTL and returns no Metadata (no url, click count or
\* creation time of the record).
C12_InfoOfExpiredFails ==
  [][ \A i \in DOMAIN saved :
        ( /\ InfoStep
          /\ ret'.key = saved[i].key
          /\ ExpiresAt(saved[i]) # 0
          /\ ExpiresAt(saved[i]) <= now )
        => (ret'.err = "ErrTTL" /\ ret'.isnil /\ ret'.value = "") ]_vars

\* ----------------------------------------------------------------- C13
\* C13: a Lookup with a key holding a character outside the URL-safe
\* alphabet fails with ErrWrongKey (never success, never not-found) and
\* sends no command: records, click counts and counter are unchanged.
C13_BadKeyLookupRejected ==
  [][ (GetStep /\ escape(ret'.key)) =>
        /\ ret'.err = "ErrWrongKey"
        /\ hashes' = hashes /\ rows' = rows /\ counter' = counter ]_vars

\* ----------------------------------------------------------------- C14
\* C14: a Lookup with a well-formed key whose identifier was never
\* allocated fails, with the not-found error (neither the invalid-key nor
\* the expired error); it never returns a nil error.
C14_UnknownKeyNotFound ==
  [][ ( /\ GetStep
        /\ ~escape(ret'.key)
        /\ \A i \in DOMAIN allocs : KeyOf(backend, allocs[i]) # ret'.key )
      => ret'.err \notin {"nil", "ErrWrongKey", "ErrTTL"} ]_vars

\* ----------------------------------------------------------------- C15
\* C15: a Lookup or Info on the key of an identifier not yet allocated
\* leaves the store unchanged; such an Info reports no record, and the
\* record a later Save creates under that identifier has clickCount 0.
C15_UnallocatedKeyUntouched ==
  [][ /\ ( /\ GetStep \/ InfoStep
           /\ \E n \in (counter + 1)..(counter0 + MaxSaves) :
                 ret'.key = KeyOf(backend, n) )
         => /\ hashes' = hashes /\ rows' = rows /\ counter' = counter
            /\ InfoStep => (ret'.isnil /\ ret'.err # "nil")
      /\ \A i \in DOMAIN saved' \ DOMAIN saved :
           ClickCountIn(hashes', rows', saved'[i]) = 0 ]_vars

\* ----------------------------------------------------------------- C16
\* C16: no Save, Lookup or Info changes the url, createdAt or expiresAt of
\* an existing record or lowers its clickCount, and the url, createdAt and
\* expiresAt of a record are those the Save that created it wrote.
C16_RecordsImmutable ==
  /\ [][ /\ hashes' = hashes \/
            \A k \in DOMAIN hashes :
              /\ k \in DOMAIN hashes'
              /\ \A f \in DOMAIN hashes[k] :
                   /\ f \in DOMAIN hashes'[k]
                   /\ IF f = "count"
                      THEN ParseInt(hashes'[k][f]) >= ParseInt(hashes[k][f])
                      ELSE hashes'[k][f] = hashes[k][f]
         /\ rows' = rows \/
            \A id \in DOMAIN rows :
              /\ id \in DOMAIN rows'
              /\ rows'[id].url = rows[id].url
              /\ rows'[id].created = rows[id].created
              /\ rows'[id].until = rows[id].until
              /\ rows'[id].count >= rows[id].count ]_vars
  /\ [](\A i \in DOMAIN saved :
         LET s == saved[i] IN
         IF backend = "sqlite3"
         THEN /\ rows[s.index].url = s.value
              /\ rows[s.index].created = s.at
              /\ rows[s.index].until = (IF s.ttl # 0 THEN s.at + s.ttl ELSE 0)
         ELSE /\ hashes[s.key]["url"] = s.value
              /\ ParseInt(hashes[s.key]["created"]) = s.at
              /\ ParseInt(hashes[s.key]["until"]) =
                   (IF s.ttl # 0 THEN s.at + s.ttl ELSE 0))

\* a record was looked up twice after its Save, one second or more later
C16_Witness ==
  \E i \in DOMAIN saved :
    /\ ClickCount(saved[i]) >= 2
    /\ now > saved[i].at
    /\ ret.op = "Get" /\ ret.key = saved[i].key

\* ----------------------------------------------------------------- C17
\* C17: when the persistence step of a Save fails after the identifier was
\* allocated, the Save has reported failure, none of the fields it was to
\* write is in the store under that identifier, and the identifier stays
\* consumed.
C17_FailedSaveLeavesNothing ==
  \A i \in DOMAIN allocs :
    ( /\ allocs[i] \notin SavedIds
      /\ \A l \in calls : l.index # allocs[i] )
    => /\ allocs[i] <= counter
       /\ allocs[i] \notin DOMAIN rows
       /\ \/ RedisKey(allocs[i]) \notin DOMAIN hashes
          \/ DOMAIN hashes[RedisKey(allocs[i])]
               \cap {"url", "created", "until"} = {}

\* ----------------------------------------------------------------- C18
\* C18: a Lookup or Info that runs while the Save creating its key is in
\* progress never reports a partially written record (some but not all of
\* url, created, until): it sees no record or the complete one.
C18_SaveAtomicForReaders ==
  [][ \A l \in calls :
        LET key == RedisKey(l.index)
            written == IF key \in DOMAIN hashes
                       THEN DOMAIN hashes[key] \cap {"url", "created", "until"}
                       ELSE {}
        IN ( /\ GetStep \/ InfoStep
             /\ ret'.key = key
             /\ written # {}
             /\ written # {"url", "created", "until"} )
           => ret'.err # "nil" ]_vars

\* ----------------------------------------------------------------- C19
\* C19: for every non-negative identifier of the 63-bit range, encoding it
\* (PutVarint into the 8-byte buffer, then unpadded base64) succeeds, and
\* decoding the key gives the identifier back.
C19_CodecRoundTrip ==
  /\ codec.stage # "panic"
  /\ codec.stage = "decoded" =>
       (codec.err = "nil" /\ ~codec.neg /\ codec.out = codec.id)

\* ----------------------------------------------------------------- C20
\* C20: every key a successful Save returned, on every backend and for
\* every identifier, holds only characters of [0-9A-Za-z_-] (no '+', '/'
\* or '=').
C20_KeysAreUrlSafe ==
  \A i \in DOMAIN saved : ~escape(saved[i].key)

\* ----------------------------------------------------------------- C21
\* C21: in Lookup and in Info a well-formed key with no record never gets
\* the error of a malformed key (ErrWrongKey), a malformed key never gets
\* the error of an absent record, and neither gets the expired error.
C21_ErrorKindsDistinct ==
  [][ (GetStep \/ InfoStep) =>
        /\ ( /\ ~escape(ret'.key)
             /\ \A i \in DOMAIN allocs : KeyOf(backend, allocs[i]) # ret'.key )
           => ret'.err \notin {"ErrWrongKey", "ErrTTL"}
        /\ escape(ret'.key) => ret'.err \notin {"redis.Nil", "ErrTTL"} ]_vars

\* ----------------------------------------------------------------- C22
\* C22: on a fresh store the first Save("https://example.org", 0) is given
\* identifier 1 and returns the key "B"; the Lookup of that key then
\* returns the url and makes the click count 1, and the Info that follows
\* reports the url, ttl 0 and clicked 1.
C22_FirstSaveScenario ==
  [][ (counter0 = 0 /\ saveCalls' = 1 /\ Len(saved') = 1
         /\ saved'[1].value = "https://example.org" /\ saved'[1].ttl = 0)
      => /\ saved = << >> =>
              (saved'[1].index = 1 /\ saved'[1].key = <<"B">>)
         /\ (saved # << >> /\ readCalls = 0 /\ GetStep
               /\ ret'.key = saved[1].key)
            => /\ ret'.err = "nil" /\ ret'.value = "https://example.org"
               /\ ClickCountIn(hashes', rows', saved[1]) = 1
         /\ (saved # << >> /\ readCalls = 1 /\ ret.op = "Get"
               /\ ret.key = saved[1].key /\ InfoStep
               /\ ret'.key = saved[1].key)
            => /\ ret'.err = "nil" /\ ~ret'.isnil
               /\ ret'.value = "https://example.org"
               /\ ret'.meta.TTL = 0 /\ ret'.meta.Clicked = 1 ]_vars

\* ----------------------------------------------------------------- C23
\* C23: Info validates the key as Lookup does: an Info with a key holding a
\* character outside [0-9A-Za-z_-] is rejected with ErrWrongKey and returns
\* nothing read from the backend, the counter key included.
C23_InfoRejectsBadKeys ==
  [][ (InfoStep /\ escape(ret'.key)) =>
        (ret'.err = "ErrWrongKey" /\ ret'.isnil) ]_vars

\* ------------------------------------------------------ the HTTP handlers
\* Go's int64 (Entry.TTL, Time.Unix(), time.Duration) as its bytes,
\* little-endian and in two's complement, so that sums and products wrap
\* at 2^64 as Go's do
int64Bytes == 8

int64(n) ==
  [i \in 1..int64Bytes |->
     LET k == IF n >= 0 THEN n ELSE (-n) - 1
         b == IF i <= 4 THEN (k \div (256 ^ (i - 1))) % 256 ELSE 0
     IN  IF n >= 0 THEN b ELSE 255 - b]

RECURSIVE mulFrom(_, _, _, _)
mulFrom(v, k, i, carry) ==
  IF i > Len(v) THEN << >>
  ELSE LET p == v[i] * k + carry
       IN  <<p % 256>> \o mulFrom(v, k, i + 1, p \div 256)

\* v * k for a small non-negative k, the carry out of the top byte dropped
mul(v, k) == mulFrom(v, k, 1, 0)

RECURSIVE addFrom(_, _, _, _)
addFrom(a, b, i, carry) ==
  IF i > Len(a) THEN << >>
  ELSE LET p == a[i] + b[i] + carry
       IN  <<p % 256>> \o addFrom(a, b, i + 1, p \div 256)

add(a, b) == addFrom(a, b, 1, 0)

neg(v) == add([i \in 1..Len(v) |-> 255 - v[i]], int64(1))

sub(a, b) == add(a, neg(b))

\* int64(v) < 0
isNeg(v) == v[Len(v)] >= 128

\* time.Duration(v) * time.Second: Second is 1000 * Millisecond,
\* Millisecond 1000 * Microsecond, Microsecond 1000 * Nanosecond
timesSecond(v) == mul(mul(mul(v, 1000), 1000), 1000)

\* time.Time{}.Unix(), the seconds of an Expires the request left out:
\* -62135596800
zeroTime == add(mul(int64(-62135596), 1000), int64(-800))

\* net/http
StatusOK == 200
StatusMovedPermanently == 301
StatusBadRequest == 400
StatusNotFound == 404

\* httptest.NewRecorder(): nothing written yet
NewRecorder == [code |-> 0, Location |-> "", ContentType |-> "",
                body |-> << >>]

\* w.WriteHeader(code): the first call decides the status
WriteHeader(w, code) == IF w.code = 0 THEN [w EXCEPT !.code = code] ELSE w

\* w.Write(data): writes the header with StatusOK when none was written
Write(w, data) ==
  LET h == WriteHeader(w, StatusOK) IN [h EXCEPT !.body = @ \o <<data>>]

\* http.Error(w, error, code)
Error(w, error, code) ==
  Write(WriteHeader([w EXCEPT !.ContentType = "text/plain; charset=utf-8"],
                    code),
        error)

\* json.NewEncoder(w).Encode(v); a nil pointer is encoded as null
Encode(w, v) == Write(w, [json |-> v])

\* url.Parse(u).Scheme of the URLs of the model
Scheme(u) == IF u = "https://here.com" THEN "https" ELSE ""

\* the directory of a request path given by its segments, with its
\* trailing slash: path.Split(oldpath) in http.Redirect, and
\* absURL.Path + "/" in concatURL
RECURSIVE dirString(_)
dirString(segs) ==
  IF segs = << >> THEN "/" ELSE "/" \o Head(segs) \o dirString(Tail(segs))

olddir(r) == dirString(SubSeq(r.Path, 1, Len(r.Path) - 1))

\* http.Redirect whose Location is the url as given, relative or not
RedirectVerbatim(w, r, url, code) ==
  Write(WriteHeader([w EXCEPT !.Location = url], code), "Moved Permanently")

\* http.Redirect(w, r, url, code): a url without scheme and host is made
\* absolute by putting the directory of the request path before it
Redirect(w, r, url, code) ==
  LET location == IF Scheme(url) = "" THEN olddir(r) \o url ELSE url
  IN  Write(WriteHeader([w EXCEPT !.Location = location], code),
            "Moved Permanently")

\* concatURL(r, key) for a request without TLS and with a relative URL
concatURL(r, key) == "http://" \o r.Host \o dirString(r.Path) \o key

ContentTypes == {"application/json", "application/pdf"}

\* request paths of the identifier routes, as segments
IdPaths == { <<"abc">>, <<"r", "aaa">> }

\* what backend.Get may return
GetReplies ==
  [value : {"https://here.com", "here.com", ""}, err : {"nil", "error"}]

\* what backend.Info may return
InfoReplies ==
  { [metadata |-> "nil", err |-> "error"],
    [metadata |-> [URL |-> "https://here.com", TTL |-> 0, Clicked |-> 1],
     err |-> "nil"],
    [metadata |-> [URL |-> "https://here.com", TTL |-> 100, Clicked |-> 0],
     err |-> "nil"] }

\* what backend.Save may return: a key, or "" for a failed Save
SaveKeys == {"abc", ""}

\* Entry.TTL: small ones, and two whose product with time.Second leaves
\* the int64 range (9223372037 and -9223372037)
TTLs ==
  { int64(0), int64(1), int64(100), int64(-111),
    add(mul(int64(9223372), 1000), int64(37)),
    add(mul(int64(-9223372), 1000), int64(-37)) }

\* Entry.Expires.Unix(): left out, in the past, in the future
Expiries == { zeroTime, int64(1), int64(Now0 + 60) }

Entries == [URL : {"http://here.com"}, TTL : TTLs, Expires : Expiries]

\* request bodies: a JSON object of Entry's shape, such an object followed
\* by more bytes, text that is no JSON, and JSON of another shape
Bodies ==
  [json : {"valid", "trailing"}, entry : Entries] \cup
  [json : {"malformed", "mismatch"},
   entry : {[URL |-> "", TTL |-> int64(0), Expires |-> zeroTime]}]

\* json.NewDecoder(r.Body).Decode(&request): reads the first JSON value
\* of the body and leaves what follows it unread
Decode(body) ==
  IF body.json \in {"valid", "trailing"}
  THEN [err |-> "nil", request |-> body.entry]
  ELSE [err |-> "error",
        request |-> [URL |-> "", TTL |-> int64(0), Expires |-> zeroTime]]

\* Shrtie.RedirectHandler: the Handler's f
RedirectHandlerServeHTTP ==
  /\ \E path \in IdPaths, ct \in ContentTypes, reply \in GetReplies :
       LET r == [Host |-> "example.com", Path |-> path, ContentType |-> ct,
                 id |-> path[Len(path)]]
           w == IF reply.err # "nil"
                THEN Error(NewRecorder, "Wrong Path", StatusNotFound)
                ELSE Redirect(NewRecorder, r, reply.value,
                              StatusMovedPermanently)
       IN  http' = [handler |-> "RedirectHandler", r |-> r,
                    calls |-> << [op |-> "Get", key |-> r.id,
                                  reply |-> reply] >>,
                    w |-> w]
  /\ UNCHANGED <<codec, backend, counter, hashes, rows, now, calls, ret,
                 saveCalls, readCalls, counter0, allocs, saved>>

\* the revisions of InfoHandler: log.Panicln in the later one, log.Fatalln
\* in the earlier ones
Revisions == {"Panicln", "Fatalln"}

\* Shrtie.InfoHandler: the type assertion s.backend.(Infoer) and what
\* follows it
InfoHandler ==
  /\ \E revision \in Revisions, infoer \in BOOLEAN :
       http' = [handler |-> "InfoHandler()", revision |-> revision,
                infoer |-> infoer,
                outcome |-> IF infoer THEN "Handler"
                            ELSE IF revision = "Panicln" THEN "panic"
                            ELSE "exit"]
  /\ UNCHANGED <<codec, backend, counter, hashes, rows, now, calls, ret,
                 saveCalls, readCalls, counter0, allocs, saved>>

\* Shrtie.InfoHandler: the Handler's f
InfoHandlerServeHTTP ==
  /\ \E path \in IdPaths, ct \in ContentTypes, reply \in InfoReplies :
       LET r == [Host |-> "example.com", Path |-> path, ContentType |-> ct,
                 id |-> path[Len(path)]]
           e == IF reply.err # "nil"
                THEN Error(NewRecorder, "Wrong Path", StatusNotFound)
                ELSE NewRecorder
           w == Encode(e, reply.metadata)
       IN  http' = [handler |-> "InfoHandler", r |-> r,
                    calls |-> << [op |-> "Info", key |-> r.id,
                                  reply |-> reply] >>,
                    w |-> w]
  /\ UNCHANGED <<codec, backend, counter, hashes, rows, now, calls, ret,
                 saveCalls, readCalls, counter0, allocs, saved>>

\* Shrtie.SaveHandler: the ttl handed to backend.Save
saveTTL(request, unixNow) ==
  LET fromExpires == timesSecond(sub(request.Expires, int64(unixNow)))
      ttl == timesSecond(request.TTL)   \* assigned over fromExpires
  IN  IF isNeg(ttl) THEN timesSecond(int64(0)) ELSE ttl

\* Shrtie.SaveHandler: the Handler's f
SaveHandlerServeHTTP ==
  /\ \E path \in {<< >>, <<"short">>}, ct \in ContentTypes, body \in Bodies,
        key \in SaveKeys :
       LET r == [Host |-> "example.com", Path |-> path, ContentType |-> ct,
                 body |-> body]
           d == Decode(body)
           ttl == saveTTL(d.request, now)
           header == [NewRecorder EXCEPT !.ContentType = "application-json"]
       IN  http' =
             IF ct # "application/json"
             THEN [handler |-> "SaveHandler", r |-> r, calls |-> << >>,
                   w |-> Error(NewRecorder, "Wrong application",
                               StatusBadRequest)]
             ELSE IF d.err # "nil"
             THEN [handler |-> "SaveHandler", r |-> r, calls |-> << >>,
                   w |-> Error(NewRecorder, "Bad Data", StatusBadRequest)]
             ELSE [handler |-> "SaveHandler", r |-> r,
                   calls |-> << [op |-> "Save", value |-> d.request.URL,
                                 ttl |-> ttl, reply |-> key] >>,
                   w |-> Encode(header, [URL |-> concatURL(r, key)])]
  /\ UNCHANGED <<codec, backend, counter, hashes, rows, now, calls, ret,
                 saveCalls, readCalls, counter0, allocs, saved>>

\* the handlers serving requests against any backend, and the clock
NextHttp ==
  \/ Tick
  \/ RedirectHandlerServeHTTP
  \/ InfoHandler
  \/ InfoHandlerServeHTTP
  \/ SaveHandlerServeHTTP

SpecHttp == Init /\ [][NextHttp]_vars

\* the reply of the backend call a handler made (handlers make at most one)
Reply == http.calls[1].reply

SaveCalled == http.handler = "SaveHandler" /\ http.calls # << >>

\* C25: the duration the save handler hands to backend.Save is never
\* negative, and a negative requested ttl is replaced by 0
C25_SaveTtlNeverNegative ==
  SaveCalled =>
    /\ ~isNeg(http.calls[1].ttl)
    /\ isNeg(http.r.body.entry.TTL) => http.calls[1].ttl = int64(0)

\* C26: a request with expires only (ttl left out, that is 0) has Save
\* called with ttl = expires - now, and a request with both has the ttl
\* field decide
C26_TtlFromExpires ==
  SaveCalled =>
    LET request == http.r.body.entry IN
    /\ (request.TTL = int64(0) /\ request.Expires = int64(Now0 + 60)) =>
         http.calls[1].ttl =
           timesSecond(sub(request.Expires, int64(now)))
    /\ (request.TTL = int64(100) /\ request.Expires # zeroTime) =>
         http.calls[1].ttl = timesSecond(int64(100))

\* C27: a request whose Content-Type is not application/json, or whose
\* body is not valid JSON, is answered 400 and backend.Save is not called
C27_BadRequestsRejected ==
  (http.handler = "SaveHandler"
     /\ (http.r.ContentType # "application/json"
           \/ http.r.body.json \in {"trailing", "malformed"})) =>
    (http.w.code = StatusBadRequest /\ http.calls = << >>)

\* C28: when backend.Info returns an error the info handler answers 404
\* and writes nothing after the error text, no JSON and no null
C28_InfoErrorWritesNothingMore ==
  (http.handler = "InfoHandler" /\ Reply.err # "nil") =>
    (http.w.code = StatusNotFound /\ http.w.body = <<"Wrong Path">>)

\* C29: constructing the info handler for a backend without Info panics
\* (the caller can recover) and returns no Handler, and for a backend with
\* Info it returns the Handler
C29_ConstructionPanicsWithoutInfoer ==
  http.handler = "InfoHandler()" =>
    http.outcome = IF http.infoer THEN "Handler" ELSE "panic"

\* C30: when backend.Save returns the empty key the save handler does not
\* answer 200 with a short URL
C30_FailedSaveNotReportedAsSuccess ==
  (SaveCalled /\ Reply = "") =>
    ~ ( /\ http.w.code = StatusOK
        /\ \E i \in DOMAIN http.w.body :
             http.w.body[i] = [json |-> [URL |-> concatURL(http.r, "")]] )

\* what Info of the backend in use returns for key in the current state
InfoReply(key) ==
  IF backend = "sqlite3" THEN Sqlite3InfoReply(key) ELSE RedisInfoReply(key)

\* C31: Get and Info judge expiry alike: a Get of a stored record reports
\* it expired exactly when an Info of it at the same clock value does
C31_SameLivenessVerdict ==
  [][ (GetStep /\ \E i \in DOMAIN saved : saved[i].key = ret'.key) =>
        ((ret'.err = "ErrTTL") <=> (InfoReply(ret'.key).err = "ErrTTL"))
    ]_vars

\* C32: the TTL of a successful Info is never negative, it is 0 exactly
\* when expiresAt is 0, and for a live record with expiresAt # 0 it is
\* expiresAt - now, a positive number
C32_InfoTtlOfLiveRecord ==
  [][ \A i \in DOMAIN saved :
        (InfoStep /\ ret'.key = saved[i].key /\ ret'.err = "nil") =>
          /\ ret'.meta.TTL >= 0
          /\ (ret'.meta.TTL = 0) <=> (ExpiresAt(saved[i]) = 0)
          /\ (Live(saved[i]) /\ ExpiresAt(saved[i]) # 0) =>
               /\ ret'.meta.TTL = ExpiresAt(saved[i]) - now
               /\ ret'.meta.TTL > 0 ]_vars

\* C33: once a Get or an Info of a key has failed with ErrTTL, no later Get
\* or Info of that key succeeds (the clock never goes back); stated for the
\* call that returns next: when the last call that returned was a Get or
\* an Info answering ErrTTL, a Get or an Info of the same key does not
\* succeed
C33_ExpiryAbsorbing ==
  [][ ( /\ ret.op \in {"Get", "Info"}
        /\ ret.err = "ErrTTL"
        /\ GetStep \/ InfoStep
        /\ ret'.key = ret.key )
      => ret'.err # "nil" ]_vars

\* keys inside the URL-safe alphabet that callers pass to the SQLite
\* backend: the empty key, the key of identifier 1, that key followed by
\* the characters of a zero byte, the characters of the byte 1 (the varint
\* of -1), and the key of identifier 1 followed by a line feed
DecoderKeys ==
  { << >>, <<"A", "g">>, <<"A", "g", "A">>, <<"A", "Q">>,
    <<"A", "g", "\n">> }

\* the SQLite backend with Get and Info calls on DecoderKeys
NextDecode ==
  \/ Tick
  \/ \E r \in Requests :
       saveCalls < MaxRecords /\ Sqlite3Save(r.value, r.ttl)
  \/ \E key \in DecoderKeys : Sqlite3Get(key)
  \/ \E key \in DecoderKeys : Sqlite3Info(key)

SpecDecode == Init /\ [][NextDecode]_vars

\* C34: a key the decoder accepts decodes to an identifier n >= 0 whose
\* encoding is that key, so the empty key, keys with trailing bytes and
\* keys of negative varints are rejected
C34_DecodingCanonical ==
  [][ (GetStep /\ backend = "sqlite3" /\ ret'.err # "ErrWrongKey") =>
        LET d == toInt64(ret'.key)
        IN  d.id >= 0 /\ Sqlite3Key(d.id) = ret'.key ]_vars

====
